---- MODULE Spec2Model ----
(***************************************************************************)
(* Modbus RTU <-> MQTT bridge: the frame codec (crc16, the request         *)
(* builders) and the command processors of the three programs of the      *)
(* repository: the JSON bridge (modbus_mqtt_bridge_json.py), the text     *)
(* MQTT bridge (modbus_mqtt_bridge.py) and the interactive CLI            *)
(* (raw_modbus_test.py).                                                  *)
(*                                                                         *)
(* Bytes are naturals 0..255, a bytes object is a sequence of bytes.      *)
(* A Python call that may raise returns a record [exc, msg, frame]: exc   *)
(* is "" when the call returned normally.                                 *)
(***************************************************************************)
EXTENDS Integers, Sequences, FiniteSets, TLC

VARIABLES
    fn,               \* codec specification: the function that was applied ("" before)
    args,             \* codec specification: its arguments
    ret,              \* codec specification: what it returned or raised
    prog,             \* which program runs: "json", "text" or "cli"
    device_selected,  \* global device_selected (args.device)
    pc,               \* position of the program
    data,             \* JSON bridge: the decoded object being processed
    parts,            \* text bridge and CLI: the tokens of the command being processed
    i,                \* loop variable of the batch loops (0 outside a loop)
    results,          \* results / states / messages list of the running command
    wire,             \* operations on the serial port since the command was received
    resp,             \* bytes returned by the last ser.read(256)
    published,        \* reports emitted since the command was received
    inbox             \* messages delivered on the subscribed topic, not yet handled

vars == <<fn, args, ret, prog, device_selected, pc, data, parts, i, results,
          wire, resp, published, inbox>>

codecVars == <<fn, args, ret>>
progVars == <<prog, device_selected, pc, data, parts, i, results, wire, resp, published,
              inbox>>

----------------------------------------------------------------------------
(* Bounds of the inputs that are enumerated.                               *)

MaxDevice == 247
MaxChannelInput == 10

Devices == 1..MaxDevice
ChannelInputs == -1..MaxChannelInput
ActionInputs == {"on", "off", "toggle"}

----------------------------------------------------------------------------
(* Integer operations of the Python code.                                  *)

\* bit k of (a ^ b)
XorBit(a, b, k) == (((a \div (2 ^ k)) % 2) + ((b \div (2 ^ k)) % 2)) % 2

\* a ^ b on non-negative integers, four bits at a time
RECURSIVE Xor(_, _)
Xor(a, b) ==
    IF a = 0 THEN b
    ELSE IF b = 0 THEN a
    ELSE XorBit(a, b, 0) + 2 * XorBit(a, b, 1) + 4 * XorBit(a, b, 2) + 8 * XorBit(a, b, 3)
         + 16 * Xor(a \div 16, b \div 16)

\* x >> n on Python integers (floor division, also for negative x)
Shr(x, n) == x \div (2 ^ n)

\* x & 0xFF
Low8(x) == x % 256

\* bytes([...]): every element must be in range(0, 256)
IsByte(x) == x \in 0..255

----------------------------------------------------------------------------
(* Modbus constants and CRC16.                                             *)

WRITE_REG == 6
READ_REG == 3

CrcInit == 65535
CrcPoly == 40961

crc16_bit_noreflect(crc) ==
    IF crc % 2 = 1 THEN Xor(Shr(crc, 1), 32773) ELSE Shr(crc, 1)

\* one pass of the inner loop: for _ in range(8)
crc16_bit(crc) ==
    IF crc % 2 = 1 THEN Xor(Shr(crc, 1), CrcPoly) ELSE Shr(crc, 1)

\* the register after n passes of the inner loop
RECURSIVE crc16_bits(_, _)
crc16_bits(crc, n) == IF n = 0 THEN crc ELSE crc16_bit(crc16_bits(crc, n - 1))

\* one pass of the outer loop: crc ^= byte, then the 8 shifts. A function, so
\* that the register is a value before the next byte is folded in.
crc16_byte[crc \in Nat, byte \in 0..255] == crc16_bits(Xor(crc, byte), 8)

\* the register after the bytes data[1..n]
RECURSIVE crc16_register(_, _)
crc16_register(bytes, n) ==
    IF n = 0 THEN CrcInit ELSE crc16_byte[crc16_register(bytes, n - 1), bytes[n]]

\* the two bytes high byte first
to_bytes_be2(crc) == <<crc \div 256, crc % 256>>

\* crc.to_bytes(2, byteorder='little')
to_bytes_le2(crc) == <<crc % 256, crc \div 256>>

crc16(bytes) == to_bytes_le2(crc16_register(bytes, Len(bytes)))

Hex == <<"0", "1", "2", "3", "4", "5", "6", "7", "8", "9", "A", "B", "C", "D", "E", "F">>

HexByte(x) == Hex[(x \div 16) + 1] \o Hex[(x % 16) + 1]

\* ' '.join(f"{x:02X}" for x in b): the sequence of the two-digit texts
hexdump(b) == [k \in 1..Len(b) |-> HexByte(b[k])]

----------------------------------------------------------------------------
(* Results of calls that may raise.                                        *)

Returned(frame) == [exc |-> "", msg |-> "", frame |-> frame]
Raised(exc, msg) == [exc |-> exc, msg |-> msg, frame |-> <<>>]

\* bytes(body) followed by frame + crc16(frame)
Framed(body) ==
    IF \A k \in 1..Len(body) : IsByte(body[k])
    THEN Returned(body \o crc16(body))
    ELSE Raised("ValueError", "bytes must be in range(0, 256)")

----------------------------------------------------------------------------
(* Frame builders, one definition per copy in the repository.             *)

RelayData(action) == IF action = "on" THEN <<1, 0>> ELSE <<2, 0>>

build_relay_command_json_swapped(device, channel, action) ==
    IF channel < 1 \/ channel > 8
    THEN Raised("ValueError", "channel must be 1-8")
    ELSE IF action \notin {"on", "off"}
    THEN Raised("ValueError", "action must be 'on' or 'off'")
    ELSE Framed(<<device, WRITE_REG, 0, channel>> \o RelayData(IF action = "on" THEN "off" ELSE "on"))

build_relay_command_json_lax(device, channel, action) ==
    IF channel < 0 \/ channel > 8
    THEN Raised("ValueError", "channel must be 1-8")
    ELSE IF action \notin {"on", "off"}
    THEN Raised("ValueError", "action must be 'on' or 'off'")
    ELSE Framed(<<device, WRITE_REG, 0, channel>> \o RelayData(action))

\* modbus_mqtt_bridge_json.py: channel is validated first, then action
build_relay_command_json(device, channel, action) ==
    IF channel < 1 \/ channel > 8
    THEN Raised("ValueError", "channel must be 1-8")
    ELSE IF action \notin {"on", "off"}
    THEN Raised("ValueError", "action must be 'on' or 'off'")
    ELSE Framed(<<device, WRITE_REG, 0, channel>> \o RelayData(action))

build_relay_command_text_defaultoff(device, channel, action) ==
    IF channel > 8 \/ channel < 1
    THEN Raised("ValueError", "channel must be 1-8")
    ELSE Framed(<<device, WRITE_REG, 0, channel>> \o RelayData(action))

\* modbus_mqtt_bridge.py: action is validated first, then channel
build_relay_command_text(device, channel, action) ==
    IF action \notin {"on", "off"}
    THEN Raised("ValueError", "action must be 'on' or 'off'")
    ELSE IF channel > 8 \/ channel < 1
    THEN Raised("ValueError", "channel must be 1-8")
    ELSE Framed(<<device, WRITE_REG, 0, channel>> \o RelayData(action))

\* the channel is validated first, as in modbus_mqtt_bridge_json.py
build_relay_command_cli_channelfirst(device, channel, action) ==
    IF channel < 1 \/ channel > 8
    THEN Raised("ValueError", "channel must be 1-8")
    ELSE IF action \notin {"on", "off"}
    THEN Raised("ValueError", "action must be 'on' or 'off'")
    ELSE Framed(<<device, WRITE_REG, 0, channel>> \o RelayData(action))

\* raw_modbus_test.py: action is validated first, then channel
build_relay_command_cli(device, channel, action) ==
    IF action \notin {"on", "off"}
    THEN Raised("ValueError", "action must be 'on' or 'off'")
    ELSE IF channel > 8 \/ channel < 1
    THEN Raised("ValueError", "channel must be 1-8")
    ELSE Framed(<<device, WRITE_REG, 0, channel>> \o RelayData(action))

ReadFrame(device, addr) ==
    Framed(<<device, READ_REG, Low8(Shr(addr, 8)), Low8(addr), 0, 1>>)

build_read_input_json_nooffset(device, input_num) == ReadFrame(device, input_num)

build_read_input_json(device, input_num) == ReadFrame(device, 128 + input_num)

build_read_input_text(device, input_num) == ReadFrame(device, 128 + input_num)

build_read_input_cli(device, input_num) == ReadFrame(device, 128 + input_num)

\* modbus_mqtt_bridge_json.py: the register is the output number
build_read_output_json(device, output_num) ==
    Framed(<<device, READ_REG, 0, output_num, 0, 1>>)

\* modbus_mqtt_bridge.py: addr = output_num
builst_read_output_text(device, output_num) == ReadFrame(device, output_num)

\* the register is the output number, as in the two bridges
builst_read_output_cli_plain(device, output_num) == ReadFrame(device, output_num)

\* raw_modbus_test.py: addr = output_num + 1
builst_read_output_cli(device, output_num) == ReadFrame(device, output_num + 1)

----------------------------------------------------------------------------
(* Decoding of a read response, as each program does it inline.  The       *)
(* result is [exc, msg, state]; resp[4] of Python is resp[5] here.         *)

Decoded(state) == [exc |-> "", msg |-> "", state |-> state]
IndexError == [exc |-> "IndexError", msg |-> "index out of range", state |-> ""]

read_state_json_truthy(r) ==
    IF r = <<>> THEN Decoded("off")
    ELSE IF Len(r) < 5 THEN IndexError
    ELSE IF r[5] # 0 THEN Decoded("on") ELSE Decoded("off")

\* modbus_mqtt_bridge_json.py: "on" if resp and resp[4] == 1 else "off"
read_state_json(r) ==
    IF r = <<>> THEN Decoded("off")
    ELSE IF Len(r) < 5 THEN IndexError
    ELSE IF r[5] = 1 THEN Decoded("on") ELSE Decoded("off")

\* modbus_mqtt_bridge.py: if len(resp) > 0: ON if resp[4] == 1 else OFF; else timeout
read_state_text(r) ==
    IF Len(r) > 0
    THEN IF Len(r) < 5 THEN IndexError
         ELSE IF r[5] = 1 THEN Decoded("ON") ELSE Decoded("OFF")
    ELSE Decoded("timeout")

\* raw_modbus_test.py: if size > 0: ON if resp[4] == 1 else OFF; else timeout
read_state_cli(r) ==
    IF Len(r) > 0
    THEN IF Len(r) < 5 THEN IndexError
         ELSE IF r[5] = 1 THEN Decoded("ON") ELSE Decoded("OFF")
    ELSE Decoded("timeout")

----------------------------------------------------------------------------
(* Text commands: cmd.split() gives the tokens; int() parses a token.      *)

Digit == <<"0", "1", "2", "3", "4", "5", "6", "7", "8", "9">>

RECURSIVE NatText(_)
NatText(n) == IF n < 10 THEN Digit[n + 1] ELSE NatText(n \div 10) \o Digit[(n % 10) + 1]

\* str(n)
IntText(n) == IF n < 0 THEN "-" \o NatText(0 - n) ELSE NatText(n)

ParsedInts == -9..99

\* int(token): [exc, val]
int(token) ==
    IF \E n \in ParsedInts : IntText(n) = token
    THEN [exc |-> "", val |-> CHOOSE n \in ParsedInts : IntText(n) = token]
    ELSE [exc |-> "ValueError", val |-> 0]

\* EXAMPLES of raw_modbus_test.py, in insertion order, as the hex texts
EXAMPLES ==
    << <<"01", "06", "00", "01", "01", "00", "D9", "9A">>,
       <<"01", "06", "00", "01", "02", "00", "D9", "6A">>,
       <<"01", "03", "00", "01", "00", "01", "D5", "CA">>,
       <<"01", "06", "00", "FD", "00", "00", "18", "3A">> >>

\* bytes.fromhex
hexstr_to_bytes(texts) ==
    [k \in 1..Len(texts) |-> CHOOSE x \in 0..255 : HexByte(x) = texts[k]]

----------------------------------------------------------------------------
(* The codec specification: one call of crc16 or of a frame builder on     *)
(* arguments drawn from the bounded input sets.                            *)

Copies == {"json", "text", "cli"}

CrcBodies ==
    { <<1, 6, 0, 1, 1, 0>>, <<1, 6, 0, 1, 2, 0>>, <<1, 3, 0, 1, 0, 1>>,
      <<1, 6, 0, 253, 0, 0>>, <<1, 3, 0, 129, 0, 1>>, <<>>, <<0>>, <<255, 255>> }

\* every value that bytes([device, ...]) accepts for the address byte
ByteDevices == {d \in 0..255 : IsByte(d)}

RelayArgs == [device : Devices \cup ByteDevices, channel : ChannelInputs, action : ActionInputs]
ReadArgs == [device : Devices, num : ChannelInputs]
CrcArgs == [bytes : CrcBodies]

NoCall == [name |-> "", copy |-> ""]

IdleProgram ==
    /\ prog = "json"
    /\ device_selected = 1
    /\ pc = "off"
    /\ data = [cmd |-> ""]
    /\ parts = <<>>
    /\ i = 0
    /\ results = <<>>
    /\ wire = <<>>
    /\ resp = <<>>
    /\ published = <<>>
    /\ inbox = <<>>

CodecInit ==
    /\ fn = NoCall
    /\ args \in RelayArgs \cup ReadArgs \cup CrcArgs
    /\ ret = Returned(<<>>)
    /\ IdleProgram

Call_crc16 ==
    /\ fn = NoCall
    /\ DOMAIN args = {"bytes"}
    /\ fn' = [name |-> "crc16", copy |-> "json"]
    /\ ret' = Returned(crc16(args.bytes))
    /\ UNCHANGED <<args, progVars>>

Call_build_relay_command ==
    /\ fn = NoCall
    /\ DOMAIN args = {"device", "channel", "action"}
    /\ \E copy \in Copies :
        /\ fn' = [name |-> "build_relay_command", copy |-> copy]
        /\ ret' = CASE copy = "json" -> build_relay_command_json(args.device, args.channel, args.action)
                    [] copy = "text" -> build_relay_command_text(args.device, args.channel, args.action)
                    [] copy = "cli" -> build_relay_command_cli(args.device, args.channel, args.action)
    /\ UNCHANGED <<args, progVars>>

Call_build_read_input ==
    /\ fn = NoCall
    /\ DOMAIN args = {"device", "num"}
    /\ \E copy \in Copies :
        /\ fn' = [name |-> "build_read_input", copy |-> copy]
        /\ ret' = CASE copy = "json" -> build_read_input_json(args.device, args.num)
                    [] copy = "text" -> build_read_input_text(args.device, args.num)
                    [] copy = "cli" -> build_read_input_cli(args.device, args.num)
    /\ UNCHANGED <<args, progVars>>

Call_build_read_output ==
    /\ fn = NoCall
    /\ DOMAIN args = {"device", "num"}
    /\ \E copy \in Copies :
        /\ fn' = [name |-> "build_read_output", copy |-> copy]
        /\ ret' = CASE copy = "json" -> build_read_output_json(args.device, args.num)
                    [] copy = "text" -> builst_read_output_text(args.device, args.num)
                    [] copy = "cli" -> builst_read_output_cli(args.device, args.num)
    /\ UNCHANGED <<args, progVars>>

CodecNext ==
    \/ Call_crc16
    \/ Call_build_relay_command
    \/ Call_build_read_input
    \/ Call_build_read_output

SpecCodec == CodecInit /\ [][CodecNext]_vars

----------------------------------------------------------------------------
(* The programs.  A command is received when the program is idle; each     *)
(* request/response cycle is a write step (build the frame, reset the      *)
(* input buffer, write the frame) followed by a read step (read, decode,   *)
(* record or report).  pc is "done" when the handler has finished and      *)
(* "crashed" when an exception nobody catches has ended the program.       *)

Programs == {"json", "text", "cli"}

NoData == [none |-> "None"]
None == <<"None">>

\* operations on the serial port
SerialOp(op, frame) == [op |-> op, frame |-> frame]
\* the frame is written without emptying the input buffer first
SerialWrite_noreset(frame) == Append(wire, SerialOp("write", frame))

SerialWrite(frame) ==
    wire \o <<SerialOp("reset_input_buffer", <<>>), SerialOp("write", frame)>>
SerialRead == Append(wire, SerialOp("read", <<>>))

\* what ser.read(256) may return after a frame was written
ShortReplies == { <<1>>, <<1, 3, 2, 0>> }
LongReplies ==
    { <<1, 3, 2, 0, 1, 121, 132>>, <<1, 3, 2, 0, 0, 184, 68>>,
      <<1, 3, 2, 0, 2, 57, 133>>, <<9, 131, 4, 1, 1>> }
ReadReplies == {<<>>} \cup ShortReplies \cup LongReplies
WriteReplies(frame) == {<<>>, frame}
Replies(frame) == IF frame[2] = WRITE_REG THEN WriteReplies(frame) ELSE ReadReplies

LastWritten == wire[Len(wire)].frame

\* ------------------------------------------------------------ JSON bridge

JsonObjects ==
    {[cmd |-> "output", channel |-> c, state |-> a] : c \in ChannelInputs, a \in ActionInputs}
    \cup {[cmd |-> "output", channel |-> 1], [cmd |-> "output", state |-> "on"]}
    \cup {[cmd |-> "output_all", state |-> a] : a \in ActionInputs}
    \cup {[cmd |-> "output_all"]}
    \cup {[cmd |-> "input", channel |-> c] : c \in ChannelInputs}
    \cup {[cmd |-> "input"]}
    \cup {[cmd |-> "status", target |-> t] : t \in {"inputs", "outputs", "relays"}}
    \cup {[cmd |-> "status"]}
    \cup {[cmd |-> "reboot"], [channel |-> 1]}

\* the payload of a message: bytes that are not UTF-8, text that is not JSON,
\* JSON that is not an object, or an object
JsonPayloads ==
    {[form |-> f, obj |-> NoData] : f \in {"undecodable", "invalid", "array"}}
    \cup {[form |-> "object", obj |-> o] : o \in JsonObjects}

\* data.get(key)
get(d, key) == IF key \in DOMAIN d THEN d[key] ELSE "None"

\* the first key whose lookup data[key] raises KeyError in the branch of cmd
MissingKey(d) ==
    LET cmd == get(d, "cmd")
        need == CASE cmd = "output" -> <<"channel", "state">>
                  [] cmd = "output_all" -> <<"state">>
                  [] cmd = "input" -> <<"channel">>
                  [] cmd = "status" -> <<"target">>
                  [] OTHER -> <<>>
        miss == {k \in 1..Len(need) : need[k] \notin DOMAIN d}
    IN IF miss = {} THEN "" ELSE need[CHOOSE k \in miss : \A m \in miss : k <= m]

JsonError(message) == [result |-> "error", message |-> message]

\* the frame built for the cycle of channel n
JsonFrame(d, n) ==
    CASE d.cmd = "output" -> build_relay_command_json(device_selected, d.channel, d.state)
      [] d.cmd = "output_all" -> build_relay_command_json(device_selected, n, d.state)
      [] d.cmd = "input" -> build_read_input_json(device_selected, d.channel)
      [] d.cmd = "status" ->
            IF d.target = "inputs"
            THEN build_read_input_json(device_selected, n)
            ELSE build_read_output_json(device_selected, n)

\* client.loop_forever() reads the socket and calls on_message in the one
\* thread of the program: a message is handed over only when no handler runs
LoopIdle_threaded == pc \in {"idle", "write", "read"}

LoopIdle == pc = "idle"

\* on_message, then process_command up to its first frame
OnMessageJson(payloads) ==
    /\ prog = "json"
    /\ LoopIdle
    /\ \E payload \in payloads :
        LET d == payload.obj
            cmd == get(d, "cmd")
            known == cmd \in {"output", "output_all", "input", "status"}
        IN /\ data' = d
           /\ i' = IF payload.form = "object" /\ cmd \in {"output_all", "status"}
                      /\ MissingKey(d) = ""
                   THEN 1 ELSE 0
           /\ pc' = CASE payload.form \in {"undecodable", "array"} -> "crashed"
                      [] payload.form = "invalid" -> "done"
                      [] OTHER -> IF known /\ MissingKey(d) = "" THEN "write" ELSE "done"
           /\ published' =
                 CASE payload.form \in {"undecodable", "array"} -> <<>>
                   [] payload.form = "invalid" -> <<[error |-> "Invalid JSON"]>>
                   [] OTHER ->
                       IF ~known THEN <<JsonError("Unknown command")>>
                       ELSE IF MissingKey(d) # "" THEN <<JsonError("'" \o MissingKey(d) \o "'")>>
                       ELSE <<>>
    /\ parts' = <<>>
    /\ results' = <<>>
    /\ wire' = <<>>
    /\ resp' = <<>>
    /\ UNCHANGED <<prog, device_selected, codecVars>>

WriteJson ==
    /\ prog = "json"
    /\ pc = "write"
    /\ LET built == JsonFrame(data, i)
       IN IF built.exc # ""
          THEN /\ published' = Append(published, JsonError(built.msg))
               /\ pc' = "done"
               /\ wire' = wire
          ELSE /\ wire' = SerialWrite(built.frame)
               /\ pc' = "read"
               /\ published' = published
    /\ UNCHANGED <<prog, device_selected, data, parts, i, results, resp, inbox, codecVars>>

ReadJson ==
    /\ prog = "json"
    /\ pc = "read"
    /\ \E r \in Replies(LastWritten) :
        LET state == read_state_json(r)
            failed == data.cmd \in {"input", "status"} /\ state.exc # ""
            item == IF data.cmd = "output_all"
                    THEN [channel |-> i, response |-> IF r # <<>> THEN hexdump(r) ELSE None]
                    ELSE [channel |-> i, state |-> state.state]
            batch == data.cmd \in {"output_all", "status"}
            last == ~batch \/ i = 8
            report ==
                CASE data.cmd = "output" ->
                        [result |-> "ok", cmd |-> data.cmd, channel |-> data.channel,
                         state |-> data.state, response |-> hexdump(r)]
                  [] data.cmd = "output_all" ->
                        [result |-> "ok", cmd |-> data.cmd, state |-> data.state,
                         outputs |-> Append(results, item)]
                  [] data.cmd = "input" ->
                        [cmd |-> data.cmd, input |-> data.channel,
                         state |-> state.state, raw |-> hexdump(r)]
                  [] data.cmd = "status" ->
                        [cmd |-> data.cmd, target |-> data.target,
                         states |-> Append(results, item)]
        IN /\ resp' = r
           /\ wire' = SerialRead
           /\ results' = IF batch /\ ~failed THEN Append(results, item) ELSE results
           /\ published' = IF failed THEN Append(published, JsonError(state.msg))
                           ELSE IF last THEN Append(published, report)
                           ELSE published
           /\ pc' = IF failed \/ last THEN "done" ELSE "write"
           /\ i' = IF batch /\ ~failed /\ ~last THEN i + 1 ELSE i
    /\ UNCHANGED <<prog, device_selected, data, parts, inbox, codecVars>>

\* ------------------------------------------- text MQTT bridge and CLI

NumberTokens == {IntText(n) : n \in ChannelInputs} \cup {"x"}

TextCommands ==
    {<<"out", t, a>> : t \in NumberTokens, a \in ActionInputs}
    \cup {<<"in", t>> : t \in NumberTokens}
    \cup { <<"on", "all">>, <<"off", "all">>, <<"status", "out">>, <<"status", "inp">>,
           <<"status", "all">>, <<"out", "1">>, <<"exit">>, <<"ping">>, <<"bye">>,
           <<"hello">>, <<"from-subscriber:", "pong">>, <<>> }

\* the branch of the if/elif chain that a command takes
TextBranch(p) ==
    IF Len(p) = 3 /\ p[1] = "out" THEN "out"
    ELSE IF p = <<"on", "all">> THEN "on all"
    ELSE IF p = <<"off", "all">> THEN "off all"
    ELSE IF Len(p) = 2 /\ p[1] = "in" THEN "in"
    ELSE IF p = <<"status", "out">> THEN "status out"
    ELSE IF p = <<"status", "inp">> THEN "status inp"
    ELSE "invalid"

BatchBranches == {"on all", "off all", "status out", "status inp"}

\* a printed or published line: the format of the source and what it is filled with
Line(fmt, n, hex) == [fmt |-> fmt, n |-> n, hex |-> hex]
Joined(lines) == [fmt |-> "{final_text}", lines |-> lines]

\* messages = [] and the first append of process_command
FirstMessages(p) ==
    IF \/ p = <<"on", "all">>
       \/ p = <<"off", "all">>
       \/ (Len(p) >= 2 /\ p[1] \in {"out", "in", "status"})
    THEN <<Line("Processing command: {cmd}", 0, <<>>)>>
    ELSE <<>>

\* modbus_mqtt_bridge.py: on_message, then process_command up to its first frame
OnMessageText(commands) ==
    /\ prog = "text"
    /\ LoopIdle
    /\ \E p \in commands :
        LET ignored == (Len(p) > 0 /\ p[1] = "from-subscriber:") \/ p \in {<<"ping">>, <<"bye">>}
            branch == TextBranch(p)
            typed == Line("You typed: {cmd}", 0, <<>>)
            badint == branch \in {"out", "in"} /\ int(p[2]).exc # ""
        IN /\ parts' = p
           /\ results' = IF ignored THEN <<>> ELSE FirstMessages(p)
           /\ i' = IF ~ignored /\ branch \in BatchBranches THEN 1 ELSE 0
           /\ published' =
                 IF ignored THEN <<>>
                 ELSE IF p = <<"exit">> THEN <<Line("Exiting program as requested.", 0, <<>>)>>
                 ELSE IF branch = "invalid" THEN <<typed, Line("Invalid command format.", 0, <<>>)>>
                 ELSE <<typed>>
           /\ pc' = IF ignored THEN "done"
                    ELSE IF p = <<"exit">> THEN "exited"
                    ELSE IF branch = "invalid" THEN "done"
                    ELSE IF badint THEN "crashed"
                    ELSE "write"
    /\ data' = NoData
    /\ wire' = <<>>
    /\ resp' = <<>>
    /\ UNCHANGED <<prog, device_selected, codecVars>>

TextFrame(p, n) ==
    LET branch == TextBranch(p)
    IN CASE branch = "out" -> build_relay_command_text(device_selected, int(p[2]).val, p[3])
         [] branch = "on all" -> build_relay_command_text(device_selected, n, "on")
         [] branch = "off all" -> build_relay_command_text(device_selected, n, "off")
         [] branch = "in" -> build_read_input_text(device_selected, int(p[2]).val)
         [] branch = "status out" -> builst_read_output_text(device_selected, n)
         [] branch = "status inp" -> build_read_input_text(device_selected, n)

WriteText ==
    /\ prog = "text"
    /\ pc = "write"
    /\ LET built == TextFrame(parts, i)
       IN IF built.exc # ""
          THEN /\ pc' = "crashed"
               /\ wire' = wire
          ELSE /\ wire' = SerialWrite(built.frame)
               /\ pc' = "read"
    /\ UNCHANGED <<prog, device_selected, data, parts, i, results, resp, published, inbox, codecVars>>

\* the batch loops of modbus_mqtt_bridge.py with the test of resp inverted
TextMessage_inverted(branch, n, r, state) ==
    CASE branch = "on all" ->
            IF Len(r) = 0 THEN Line("Channel {i} ON response: {hexdump(resp)}", n, hexdump(r))
            ELSE Line("Channel {i} No response (timeout)", n, <<>>)
      [] branch = "off all" ->
            IF Len(r) = 0 THEN Line("Channel {i} OFF response: {hexdump(resp)}", n, hexdump(r))
            ELSE Line("Channel {i}: No response (timeout)", n, <<>>)
      [] branch \in {"status out", "status inp"} ->
            IF state = "timeout" THEN Line("Input {i}: No response (timeout)", n, <<>>)
            ELSE IF state = "ON" THEN Line("Input {i} is ON", n, <<>>)
            ELSE Line("Input {i} is OFF", n, <<>>)

\* the message appended for channel n in a batch loop of modbus_mqtt_bridge.py
TextMessage(branch, n, r, state) ==
    CASE branch = "on all" ->
            IF Len(r) > 0 THEN Line("Channel {i} ON response: {hexdump(resp)}", n, hexdump(r))
            ELSE Line("Channel {i} No response (timeout)", n, <<>>)
      [] branch = "off all" ->
            IF Len(r) > 0 THEN Line("Channel {i} OFF response: {hexdump(resp)}", n, hexdump(r))
            ELSE Line("Channel {i}: No response (timeout)", n, <<>>)
      [] branch \in {"status out", "status inp"} ->
            IF state = "timeout" THEN Line("Input {i}: No response (timeout)", n, <<>>)
            ELSE IF state = "ON" THEN Line("Input {i} is ON", n, <<>>)
            ELSE Line("Input {i} is OFF", n, <<>>)

ReadText ==
    /\ prog = "text"
    /\ pc = "read"
    /\ \E r \in Replies(LastWritten) :
        LET branch == TextBranch(parts)
            state == read_state_text(r)
            failed == branch \in {"in", "status out", "status inp"} /\ state.exc # ""
            batch == branch \in BatchBranches
            last == ~batch \/ i = 8
            report ==
                CASE branch = "out" -> Line("<- Response: {hexdump(resp)}", 0, hexdump(r))
                  [] branch = "in" ->
                        IF state.state = "timeout" THEN Line("<- No response (timeout).", 0, <<>>)
                        ELSE IF state.state = "ON" THEN Line("Input {inp} is ON", int(parts[2]).val, <<>>)
                        ELSE Line("Input {inp} is OFF", int(parts[2]).val, <<>>)
                  [] OTHER -> Joined(Append(results, TextMessage(branch, i, r, state.state)))
        IN /\ resp' = r
           /\ wire' = SerialRead
           /\ results' = IF batch /\ ~failed
                         THEN Append(results, TextMessage(branch, i, r, state.state))
                         ELSE results
           /\ published' = IF ~failed /\ last THEN Append(published, report) ELSE published
           /\ pc' = IF failed THEN "crashed" ELSE IF last THEN "done" ELSE "write"
           /\ i' = IF batch /\ ~failed /\ ~last THEN i + 1 ELSE i
    /\ UNCHANGED <<prog, device_selected, data, parts, inbox, codecVars>>

\* raw_modbus_test.py: one pass of the while loop up to its first frame; exit
\* leaves the loop for the EXAMPLES that are sent before the port is closed
OnInputCli(commands) ==
    /\ prog = "cli"
    /\ pc = "idle"
    /\ \E p \in commands :
        LET branch == TextBranch(p)
            typed == Line("You typed: {cmd}", 0, <<>>)
            badint == branch \in {"out", "in"} /\ int(p[2]).exc # ""
        IN /\ parts' = p
           /\ i' = IF p = <<"exit">> \/ branch \in BatchBranches THEN 1 ELSE 0
           /\ published' =
                 IF p = <<"exit">> THEN <<>>
                 ELSE IF branch = "invalid" THEN <<typed, Line("Invalid command format.", 0, <<>>)>>
                 ELSE <<typed>>
           /\ pc' = IF p = <<"exit">> THEN "write"
                    ELSE IF branch = "invalid" THEN "done"
                    ELSE IF badint THEN "crashed"
                    ELSE "write"
    /\ data' = NoData
    /\ results' = <<>>
    /\ wire' = <<>>
    /\ resp' = <<>>
    /\ UNCHANGED <<prog, device_selected, codecVars>>

CliFrame(p, n) ==
    LET branch == TextBranch(p)
    IN CASE p = <<"exit">> -> Returned(hexstr_to_bytes(EXAMPLES[n]))
         [] branch = "out" -> build_relay_command_cli(device_selected, int(p[2]).val, p[3])
         [] branch = "on all" -> build_relay_command_cli(device_selected, n, "on")
         [] branch = "off all" -> build_relay_command_cli(device_selected, n, "off")
         [] branch = "in" -> build_read_input_cli(device_selected, int(p[2]).val)
         [] branch = "status out" -> builst_read_output_cli(device_selected, n)
         [] branch = "status inp" -> build_read_input_cli(device_selected, n)

WriteCli ==
    /\ prog = "cli"
    /\ pc = "write"
    /\ LET built == CliFrame(parts, i)
       IN IF built.exc # ""
          THEN /\ pc' = "crashed"
               /\ wire' = wire
               /\ published' = published
          ELSE /\ wire' = SerialWrite(built.frame)
               /\ pc' = "read"
               /\ published' =
                     IF parts = <<"exit">>
                     THEN Append(published, Line("-> Sending example: {name} {hexdump(data)}", i,
                                                 hexdump(built.frame)))
                     ELSE published
    /\ UNCHANGED <<prog, device_selected, data, parts, i, results, resp, inbox, codecVars>>

\* the lines printed after the read of a cycle of raw_modbus_test.py
CliLines(p, n, r, state) ==
    LET branch == TextBranch(p)
        shown == Line("<- Response: {hexdump(resp)}", 0, hexdump(r))
    IN CASE p = <<"exit">> ->
              IF r # <<>> THEN <<Line("<- Raw response: {hexdump(resp)}", n, hexdump(r))>>
              ELSE <<Line("<- No response (timeout).", n, <<>>)>>
         [] branch = "out" -> <<shown>>
         [] branch = "on all" -> <<Line("Channel {i} ON response: {hexdump(resp)}", n, hexdump(r))>>
         [] branch = "off all" -> <<Line("Channel {i} OFF response: {hexdump(resp)}", n, hexdump(r))>>
         [] branch = "in" ->
              IF state.exc # "" THEN <<shown>>
              ELSE IF state.state = "timeout" THEN <<Line("<- No response (timeout).", 0, <<>>)>>
              ELSE IF state.state = "ON" THEN <<shown, Line("Input {inp} is ON", int(p[2]).val, <<>>)>>
              ELSE <<shown, Line("Input {inp} is OFF", int(p[2]).val, <<>>)>>
         [] branch = "status out" ->
              IF state.exc # "" THEN <<>>
              ELSE IF state.state = "timeout" THEN <<Line("Output {i}: No response (timeout).", n, <<>>)>>
              ELSE IF state.state = "ON" THEN <<Line("Output {i} is ON", n, <<>>)>>
              ELSE <<Line("Output {i} is OFF", n, <<>>)>>
         [] branch = "status inp" ->
              IF state.exc # "" THEN <<>>
              ELSE IF state.state = "timeout" THEN <<Line("Input {i}: No response (timeout).", n, <<>>)>>
              ELSE IF state.state = "ON" THEN <<Line("Input {i} is ON", n, <<>>)>>
              ELSE <<Line("Input {i} is OFF", n, <<>>)>>

ReadCli ==
    /\ prog = "cli"
    /\ pc = "read"
    /\ \E r \in Replies(LastWritten) :
        LET branch == TextBranch(parts)
            state == read_state_cli(r)
            failed == branch \in {"in", "status out", "status inp"} /\ state.exc # ""
            examples == parts = <<"exit">>
            batch == examples \/ branch \in BatchBranches
            last == ~batch \/ i = (IF examples THEN Len(EXAMPLES) ELSE 8)
        IN /\ resp' = r
           /\ wire' = IF examples /\ last
                      THEN SerialRead \o <<SerialOp("close", <<>>)>>
                      ELSE SerialRead
           /\ published' = published \o CliLines(parts, i, r, state)
           /\ pc' = IF failed THEN "crashed"
                    ELSE IF ~last THEN "write"
                    ELSE IF examples THEN "exited"
                    ELSE "done"
           /\ i' = IF batch /\ ~failed /\ ~last THEN i + 1 ELSE i
    /\ UNCHANGED <<prog, device_selected, data, parts, results, inbox, codecVars>>

\* ------------------------------------------------------- specification

\* the handler has returned: the program waits for the next command (paho's
\* loop_forever, the while loop of the CLI); the locals of the handler are
\* gone and the records of the finished command are dropped
Return ==
    /\ pc = "done"
    /\ pc' = "idle"
    /\ data' = NoData
    /\ parts' = <<>>
    /\ i' = 0
    /\ results' = <<>>
    /\ wire' = <<>>
    /\ resp' = <<>>
    /\ published' = <<>>
    /\ UNCHANGED <<prog, device_selected, inbox, codecVars>>

MainDevices == {1}

Init ==
    /\ prog \in Programs
    /\ device_selected \in MainDevices
    /\ pc = "idle"
    /\ data = NoData
    /\ parts = <<>>
    /\ i = 0
    /\ results = <<>>
    /\ wire = <<>>
    /\ resp = <<>>
    /\ published = <<>>
    /\ inbox = <<>>
    /\ fn = NoCall
    /\ args = [bytes |-> <<>>]
    /\ ret = Returned(<<>>)

\* a command arrives while the program waits for one and is handled at once
ReceiveJson == OnMessageJson(JsonPayloads) /\ UNCHANGED inbox
ReceiveText == OnMessageText(TextCommands) /\ UNCHANGED inbox
InputCli == OnInputCli(TextCommands) /\ UNCHANGED inbox

Next ==
    \/ ReceiveJson
    \/ WriteJson
    \/ ReadJson
    \/ ReceiveText
    \/ WriteText
    \/ ReadText
    \/ InputCli
    \/ WriteCli
    \/ ReadCli
    \/ Return

Spec == Init /\ [][Next]_vars

----------------------------------------------------------------------------
(* The two MQTT bridges under loop_forever.  The broker delivers a message *)
(* on the command topic at any time, also while a handler runs; the loop   *)
(* hands the oldest one to on_message when the handler has returned.       *)

MaxInbox == 2

LoopJsonPayloads ==
    { [form |-> "object", obj |-> [cmd |-> "output", channel |-> 1, state |-> "on"]],
      [form |-> "object", obj |-> [cmd |-> "output_all", state |-> "on"]],
      [form |-> "invalid", obj |-> NoData] }

LoopTextCommands == { <<"out", "1", "on">>, <<"on", "all">>, <<"hello">> }

Arrive ==
    /\ prog \in {"json", "text"}
    /\ Len(inbox) < MaxInbox
    /\ \E m \in (IF prog = "json" THEN LoopJsonPayloads ELSE LoopTextCommands) :
        inbox' = Append(inbox, m)
    /\ UNCHANGED <<prog, device_selected, pc, data, parts, i, results, wire, resp,
                   published, codecVars>>

DispatchJson ==
    /\ inbox # <<>>
    /\ OnMessageJson({Head(inbox)})
    /\ inbox' = Tail(inbox)

DispatchText ==
    /\ inbox # <<>>
    /\ OnMessageText({Head(inbox)})
    /\ inbox' = Tail(inbox)

LoopInit ==
    /\ prog \in {"json", "text"}
    /\ device_selected \in MainDevices
    /\ pc = "idle"
    /\ data = NoData
    /\ parts = <<>>
    /\ i = 0
    /\ results = <<>>
    /\ wire = <<>>
    /\ resp = <<>>
    /\ published = <<>>
    /\ inbox = <<>>
    /\ fn = NoCall
    /\ args = [bytes |-> <<>>]
    /\ ret = Returned(<<>>)

LoopNext ==
    \/ Arrive
    \/ DispatchJson
    \/ WriteJson
    \/ ReadJson
    \/ DispatchText
    \/ WriteText
    \/ ReadText
    \/ Return

SpecLoop == LoopInit /\ [][LoopNext]_vars

----------------------------------------------------------------------------
(* mqtt_test_sub.py: the test subscriber.  It subscribes to the topic it   *)
(* publishes on, so the broker delivers its own replies back to it.  A     *)
(* text is the sequence of its characters.                                 *)

UpperCase == <<"A", "B", "C", "D", "E", "F", "G", "H", "I", "J", "K", "L", "M",
               "N", "O", "P", "Q", "R", "S", "T", "U", "V", "W", "X", "Y", "Z">>
LowerCase == <<"a", "b", "c", "d", "e", "f", "g", "h", "i", "j", "k", "l", "m",
               "n", "o", "p", "q", "r", "s", "t", "u", "v", "w", "x", "y", "z">>
Whitespace == {" ", "\t", "\n"}

\* str.lower()
lower(text) ==
    [k \in 1..Len(text) |->
        IF \E u \in 1..Len(UpperCase) : UpperCase[u] = text[k]
        THEN LowerCase[CHOOSE u \in 1..Len(UpperCase) : UpperCase[u] = text[k]]
        ELSE text[k]]

\* str.strip()
strip(text) ==
    LET inked == {k \in 1..Len(text) : text[k] \notin Whitespace}
    IN IF inked = {} THEN <<>>
       ELSE SubSeq(text, CHOOSE k \in inked : \A m \in inked : k <= m,
                         CHOOSE k \in inked : \A m \in inked : k >= m)

\* str.startswith(prefix)
startswith(text, prefix) ==
    Len(text) >= Len(prefix) /\ SubSeq(text, 1, Len(prefix)) = prefix

OwnPrefix ==
    <<"f", "r", "o", "m", "-", "s", "u", "b", "s", "c", "r", "i", "b", "e", "r", ":">>
OwnTag ==
    <<"f", "r", "o", "m", "-", "s", "u", "b", "s", "c", "r", "i", "b", "e", "r", ":", " ">>
Ping ==
    <<"p", "i", "n", "g">>
Pong ==
    <<"p", "o", "n", "g">>
TellAJoke ==
    <<"t", "e", "l", "l", " ", "a", " ", "j", "o", "k", "e">>
Bye ==
    <<"b", "y", "e">>
Goodbye ==
    <<"G", "o", "o", "d", "b", "y", "e", "!">>

\* get_random_joke: random.choice(jokes); "U+2026" is the one character of
\* that code point (the horizontal ellipsis)
jokes == {
    <<"W", "h", "y", " ", "d", "o", " ", "n", "o", "t", " ", "s", "k", "e", "l", "e",
      "t", "o", "n", "s", " ", "f", "i", "g", "h", "t", " ", "e", "a", "c", "h", " ",
      "o", "t", "h", "e", "r", "?", " ", "T", "h", "e", "y", " ", "d", "o", " ", "n",
      "o", "t", " ", "h", "a", "v", "e", " ", "t", "h", "e", " ", "g", "u", "t", "s", ".">>,
    <<"I", " ", "t", "r", "i", "e", "d", " ", "t", "o", " ", "c", "a", "t", "c", "h",
      " ", "f", "o", "g", " ", "y", "e", "s", "t", "e", "r", "d", "a", "y", "U+2026", " ",
      "M", "i", "s", "t", "!">>,
    <<"W", "h", "y", " ", "w", "a", "s", " ", "t", "h", "e", " ", "m", "a", "t", "h",
      " ", "b", "o", "o", "k", " ", "s", "a", "d", "?", " ", "B", "e", "c", "a", "u",
      "s", "e", " ", "i", "t", " ", "h", "a", "d", " ", "t", "o", "o", " ", "m", "a",
      "n", "y", " ", "p", "r", "o", "b", "l", "e", "m", "s", ".">>,
    <<"P", "a", "r", "a", "l", "l", "e", "l", " ", "l", "i", "n", "e", "s", " ", "h",
      "a", "v", "e", " ", "s", "o", " ", "m", "u", "c", "h", " ", "i", "n", " ", "c",
      "o", "m", "m", "o", "n", ".", " ", "I", "t", "'", "s", " ", "a", " ", "s", "h",
      "a", "m", "e", " ", "t", "h", "e", "y", "'", "l", "l", " ", "n", "e", "v", "e",
      "r", " ", "m", "e", "e", "t", ".">> }

\* message.payload: bytes that decode to a text, or bytes that are not UTF-8
Payload(text) == [utf8 |-> TRUE, text |-> text]
Undecodable == [utf8 |-> FALSE, text |-> <<>>]

\* what other clients publish on george/test/board
MaxExternal == 2
SubMessages ==
    { Payload(Ping),
      Payload(<<"P", "I", "N", "G", " ">>),
      Payload(<<"T", "e", "l", "l", " ", "a", " ", "j", "o", "k", "e">>),
      Payload(Bye),
      Payload(<<"h", "e", "l", "l", "o">>),
      Payload(<<"f", "r", "o", "m", "-", "s", "u", "b", "s", "c", "r", "i", "b", "e", "r", ":", " ", "p", "i", "n", "g">>),
      Payload(<<" ", "F", "r", "o", "m", "-", "S", "u", "b", "s", "c", "r", "i", "b", "e", "r", ":", " ", "b", "y", "e">>),
      Undecodable }

\* the reply chosen for a command; none for anything else
reply_to(incoming) ==
    CASE incoming = Ping -> {Pong}
      [] incoming = TellAJoke -> jokes
      [] incoming = Bye -> {Goodbye}
      [] OTHER -> {}

\* the reply is sent without its tag
Tagged_bare(reply) == reply

\* "from-subscriber: " + reply
Tagged(reply) == OwnTag \o reply

\* another client publishes on the topic: the broker delivers the message
PublishExternal ==
    /\ prog = "sub"
    /\ i < MaxExternal
    /\ \E m \in SubMessages : inbox' = Append(inbox, m)
    /\ i' = i + 1
    /\ UNCHANGED <<prog, device_selected, pc, data, parts, results, wire, resp, published,
                   codecVars>>

\* mqtt_test_sub.py: on_message; what it publishes is delivered back to it
OnMessageSub ==
    /\ prog = "sub"
    /\ LoopIdle
    /\ inbox # <<>>
    /\ LET message == Head(inbox)
           text == strip(message.text)
           incoming == lower(text)
       IN IF ~message.utf8
          THEN /\ pc' = "crashed"
               /\ inbox' = Tail(inbox)
               /\ published' = published
          ELSE IF startswith(incoming, OwnPrefix) \/ reply_to(incoming) = {}
          THEN /\ pc' = pc
               /\ inbox' = Tail(inbox)
               /\ published' = published
          ELSE \E reply \in reply_to(incoming) :
               /\ pc' = pc
               /\ published' = Append(published, Tagged(reply))
               /\ inbox' = Append(Tail(inbox), Payload(Tagged(reply)))
    /\ UNCHANGED <<prog, device_selected, data, parts, i, results, wire, resp, codecVars>>

SubInit ==
    /\ prog = "sub"
    /\ device_selected = 1
    /\ pc = "idle"
    /\ data = NoData
    /\ parts = <<>>
    /\ i = 0
    /\ results = <<>>
    /\ wire = <<>>
    /\ resp = <<>>
    /\ published = <<>>
    /\ inbox = <<>>
    /\ fn = NoCall
    /\ args = [bytes |-> <<>>]
    /\ ret = Returned(<<>>)

SubNext ==
    \/ PublishExternal
    \/ OnMessageSub

SpecSub == SubInit /\ [][SubNext]_vars

----------------------------------------------------------------------------
(* Claims about the codec, checked under SpecCodec.                        *)

FrameBody(frame) == SubSeq(frame, 1, 6)
FrameCrc(frame) == SubSeq(frame, 7, 8)

\* C1: crc16 returns D9 9A for body 01 06 00 01 01 00, D9 6A for body
\* 01 06 00 01 02 00 and D5 CA for body 01 03 00 01 00 01 (low byte first).
C1_CrcVectors ==
    fn.name = "crc16" =>
        /\ ret.exc = ""
        /\ args.bytes = <<1, 6, 0, 1, 1, 0>> => ret.frame = <<217, 154>>
        /\ args.bytes = <<1, 6, 0, 1, 2, 0>> => ret.frame = <<217, 106>>
        /\ args.bytes = <<1, 3, 0, 1, 0, 1>> => ret.frame = <<213, 202>>

C1_Witness ==
    /\ fn.name = "crc16"
    /\ args.bytes = <<1, 3, 0, 1, 0, 1>>
    /\ ret.frame = <<213, 202>>

\* C2: for device in 1..247, channel in 1..8 and action on/off every copy of
\* build_relay_command returns 8 bytes: device, 0x06, 0x00, channel, 01 00 for
\* on or 02 00 for off, then crc16 of the first six bytes; device 1,
\* channel 1, on gives 01 06 00 01 01 00 D9 9A.
C2_RelayFrame ==
    (/\ fn.name = "build_relay_command"
     /\ args.device \in 1..247
     /\ args.channel \in 1..8
     /\ args.action \in {"on", "off"}) =>
        /\ ret.exc = ""
        /\ Len(ret.frame) = 8
        /\ ret.frame[1] = args.device
        /\ ret.frame[2] = 6
        /\ ret.frame[3] = 0
        /\ ret.frame[4] = args.channel
        /\ args.action = "on" => (ret.frame[5] = 1 /\ ret.frame[6] = 0)
        /\ args.action = "off" => (ret.frame[5] = 2 /\ ret.frame[6] = 0)
        /\ FrameCrc(ret.frame) = crc16(FrameBody(ret.frame))
        /\ (args.device = 1 /\ args.channel = 1 /\ args.action = "on") =>
               ret.frame = <<1, 6, 0, 1, 1, 0, 217, 154>>

C2_Witness ==
    /\ fn = [name |-> "build_relay_command", copy |-> "text"]
    /\ args = [device |-> 247, channel |-> 8, action |-> "off"]
    /\ Len(ret.frame) = 8
    /\ ret.frame[5] = 2

\* C3: for device in 1..247 and input channel in 1..8 every copy of
\* build_read_input returns 8 bytes: device, 0x03, 0x00, 0x80 + channel,
\* 00 01, then crc16 of the first six bytes; device 1, channel 1 gives the
\* body 01 03 00 81 00 01.
C3_ReadInputFrame ==
    (/\ fn.name = "build_read_input"
     /\ args.device \in 1..247
     /\ args.num \in 1..8) =>
        /\ ret.exc = ""
        /\ Len(ret.frame) = 8
        /\ ret.frame[1] = args.device
        /\ ret.frame[2] = 3
        /\ ret.frame[3] = 0
        /\ ret.frame[4] = 128 + args.num
        /\ ret.frame[5] = 0
        /\ ret.frame[6] = 1
        /\ FrameCrc(ret.frame) = crc16(FrameBody(ret.frame))
        /\ (args.device = 1 /\ args.num = 1) => FrameBody(ret.frame) = <<1, 3, 0, 129, 0, 1>>

C3_Witness ==
    /\ fn = [name |-> "build_read_input", copy |-> "json"]
    /\ args = [device |-> 1, num |-> 1]
    /\ ret.frame = <<1, 3, 0, 129, 0, 1, 212, 34>>

\* C4: build_relay_command returns a frame exactly when channel is in 1..8
\* and action is on or off; a channel outside 1..8 with action on/off fails
\* with the invalid-channel error, an action other than on/off with a
\* channel in 1..8 fails with the invalid-action error, and a failure
\* returns no frame.
C4_RelayValidation ==
    fn.name = "build_relay_command" =>
        /\ ret.exc = "" <=> (args.channel \in 1..8 /\ args.action \in {"on", "off"})
        /\ ret.exc = "" <=> Len(ret.frame) = 8
        /\ ret.exc # "" => ret.frame = <<>>
        /\ (args.channel \notin 1..8 /\ args.action \in {"on", "off"}) =>
               (ret.exc = "ValueError" /\ ret.msg = "channel must be 1-8")
        /\ (args.action \notin {"on", "off"} /\ args.channel \in 1..8) =>
               (ret.exc = "ValueError" /\ ret.msg = "action must be 'on' or 'off'")

C4_Witness ==
    /\ fn.name = "build_relay_command"
    /\ args.channel = 9
    /\ args.action = "on"
    /\ ret.msg = "channel must be 1-8"
    /\ ret.frame = <<>>

\* the register that a read frame addresses
RegisterOf(frame) == frame[3] * 256 + frame[4]

\* C16: for every device and channel 1..8 the output-status read frame has
\* function code 0x03 and data (0x00, 0x01); its register is the channel in the
\* JSON bridge and the channel + 1 in the interactive CLI, so the CLI's frame
\* for channel ch is the JSON bridge's frame for register ch + 1 and differs
\* from the JSON bridge's frame for channel ch.
C16_OutputRegisterDiffers ==
    (fn.name = "build_read_output" /\ fn.copy \in {"json", "cli"} /\ args.num \in 1..8) =>
        /\ ret.exc = ""
        /\ Len(ret.frame) = 8
        /\ ret.frame[1] = args.device
        /\ ret.frame[2] = 3
        /\ <<ret.frame[5], ret.frame[6]>> = <<0, 1>>
        /\ fn.copy = "json" => RegisterOf(ret.frame) = args.num
        /\ fn.copy = "cli" =>
               /\ RegisterOf(ret.frame) = args.num + 1
               /\ ret.frame = build_read_output_json(args.device, args.num + 1).frame
               /\ ret.frame # build_read_output_json(args.device, args.num).frame

C16_Witness ==
    /\ fn = [name |-> "build_read_output", copy |-> "cli"]
    /\ args = [device |-> 247, num |-> 8]
    /\ FrameBody(ret.frame) = <<247, 3, 0, 9, 0, 1>>

\* C17: for every output number 1..8 the output-status read frame built by
\* builst_read_output addresses a register in 0x0001..0x0008.
C17_OutputRegisterInRange ==
    (fn.name = "build_read_output" /\ fn.copy \in {"text", "cli"} /\ args.num \in 1..8) =>
        /\ ret.exc = ""
        /\ RegisterOf(ret.frame) \in 1..8

\* what each copy of build_relay_command returns for the arguments of the call
RelayJson == build_relay_command_json(args.device, args.channel, args.action)
RelayText == build_relay_command_text(args.device, args.channel, args.action)
RelayCli == build_relay_command_cli(args.device, args.channel, args.action)

\* C21: the three copies of build_relay_command are equivalent: for every
\* device 0..255, every channel and every action, the copy that was called
\* returns what each of the three copies returns, the same frame or the same
\* error, also when both channel and action are invalid.
C21_CopiesEquivalent ==
    fn.name = "build_relay_command" =>
        /\ ret = RelayJson
        /\ ret = RelayText
        /\ ret = RelayCli

\* C21, as the code has it: the copies of the text bridge and of the CLI are
\* equivalent, and the copy of the JSON bridge agrees with them unless both
\* channel and action are invalid; then all three fail and return no frame,
\* the JSON bridge with the invalid-channel error and the other two with the
\* invalid-action error.
C21_CopiesEquivalentButPrecedence ==
    fn.name = "build_relay_command" =>
        LET json == RelayJson
            text == RelayText
            cli == RelayCli
        IN /\ ret = (CASE fn.copy = "json" -> json
                       [] fn.copy = "text" -> text
                       [] fn.copy = "cli" -> cli)
           /\ text = cli
           /\ (args.channel \in 1..8 \/ args.action \in {"on", "off"}) => json = text
           /\ (args.channel \notin 1..8 /\ args.action \notin {"on", "off"}) =>
                  /\ json = Raised("ValueError", "channel must be 1-8")
                  /\ text = Raised("ValueError", "action must be 'on' or 'off'")

C21_Witness ==
    /\ fn = [name |-> "build_relay_command", copy |-> "cli"]
    /\ args = [device |-> 0, channel |-> 9, action |-> "toggle"]
    /\ ret = Raised("ValueError", "action must be 'on' or 'off'")
    /\ RelayJson = Raised("ValueError", "channel must be 1-8")

\* every value that the register crc takes while crc16(bytes) runs: the
\* initial value, and for each byte the value after crc ^= byte and after each
\* of the 8 passes of the inner loop
RECURSIVE InnerLoopValues(_, _)
InnerLoopValues(crc, n) ==
    IF n = 0 THEN <<crc>>
    ELSE LET before == InnerLoopValues(crc, n - 1)
         IN Append(before, crc16_bit(before[Len(before)]))

RECURSIVE OuterLoopValues(_, _)
OuterLoopValues(bytes, n) ==
    IF n = 0 THEN <<CrcInit>>
    ELSE LET before == OuterLoopValues(bytes, n - 1)
         IN before \o InnerLoopValues(Xor(before[Len(before)], bytes[n]), 8)

RegisterValues(bytes) ==
    LET values == OuterLoopValues(bytes, Len(bytes))
    IN {values[k] : k \in 1..Len(values)}

\* C22: for every 8-byte frame that a builder returns, crc16 over all 8 bytes
\* of the frame is 00 00, and the CRC register stays within 0..0xFFFF
\* throughout the computation (the computation over the body is its first six
\* bytes), so the conversion to 2 bytes never overflows.
C22_FrameCrcResidueZero ==
    (/\ fn.name \in {"build_relay_command", "build_read_input", "build_read_output"}
     /\ ret.exc = "") =>
        /\ Len(ret.frame) = 8
        /\ crc16(ret.frame) = <<0, 0>>
        /\ RegisterValues(ret.frame) \subseteq 0..65535
        /\ \A k \in 1..2 : IsByte(FrameCrc(ret.frame)[k])

C22_Witness ==
    /\ fn = [name |-> "build_read_output", copy |-> "json"]
    /\ args = [device |-> 247, num |-> 8]
    /\ ret.exc = ""
    /\ crc16(ret.frame) = <<0, 0>>
    /\ FrameCrc(ret.frame) # <<0, 0>>

----------------------------------------------------------------------------
(* Claims about the programs, checked under Spec.                          *)

Written == {k \in 1..Len(wire) : wire[k].op = "write"}
Reads == {k \in 1..Len(wire) : wire[k].op = "read"}

\* the last operation on the serial port was the read that ends a cycle
CycleRead == Len(wire) > 0 /\ wire[Len(wire)].op = "read"

Branch == IF prog = "json" THEN get(data, "cmd") ELSE TextBranch(parts)

\* the command being processed is a relay write whose channel or action is invalid
InvalidRelay ==
    IF prog = "json"
    THEN \/ /\ Branch = "output"
            /\ MissingKey(data) = ""
            /\ (data.channel \notin 1..8 \/ data.state \notin {"on", "off"})
         \/ /\ Branch = "output_all"
            /\ MissingKey(data) = ""
            /\ data.state \notin {"on", "off"}
    ELSE /\ Branch = "out"
         /\ int(parts[2]).exc = ""
         /\ (int(parts[2]).val \notin 1..8 \/ parts[3] \notin {"on", "off"})

\* the command being processed reads one input whose channel is outside 1..8
InvalidInput ==
    IF prog = "json"
    THEN Branch = "input" /\ MissingKey(data) = "" /\ data.channel \notin 1..8
    ELSE Branch = "in" /\ int(parts[2]).exc = "" /\ int(parts[2]).val \notin 1..8

ReadKind == Branch \in {"input", "status", "in", "status out", "status inp"}
WriteKind == Branch \in {"output", "output_all", "out", "on all", "off all"}

\* what a printed or published line says about the cycle it reports
LineOutcome(line) ==
    CASE line.fmt \in {"Input {i} is ON", "Input {inp} is ON", "Output {i} is ON"} -> "On"
      [] line.fmt \in {"Input {i} is OFF", "Input {inp} is OFF", "Output {i} is OFF"} -> "Off"
      [] line.fmt \in {"<- No response (timeout).", "Input {i}: No response (timeout)",
                       "Input {i}: No response (timeout).", "Output {i}: No response (timeout).",
                       "Channel {i} No response (timeout)", "Channel {i}: No response (timeout)"}
            -> "Timeout"
      [] line.fmt \in {"<- Response: {hexdump(resp)}", "Channel {i} ON response: {hexdump(resp)}",
                       "Channel {i} OFF response: {hexdump(resp)}"}
            -> IF line.hex = <<>> THEN "Timeout" ELSE "Acknowledged"
      [] OTHER -> "None"

StateOutcome(state) == IF state = "on" THEN "On" ELSE "Off"

\* The outcome that the program reports for the cycle whose read was the last
\* operation on the port: On, Off, Timeout, Acknowledged, or Raised when the
\* decoding raised instead of reporting.  A write report that shows an empty
\* response counts as Timeout.
CycleOutcome ==
    CASE prog = "json" /\ Branch = "output" ->
            IF published[Len(published)].response = <<>> THEN "Timeout" ELSE "Acknowledged"
      [] prog = "json" /\ Branch = "output_all" ->
            IF results[Len(results)].response = None THEN "Timeout" ELSE "Acknowledged"
      [] prog = "json" /\ Branch = "input" ->
            IF "state" \in DOMAIN published[Len(published)]
            THEN StateOutcome(published[Len(published)].state)
            ELSE "Raised"
      [] prog = "json" /\ Branch = "status" ->
            IF Len(results) = Cardinality(Reads)
            THEN StateOutcome(results[Len(results)].state)
            ELSE "Raised"
      [] prog = "text" /\ Branch \in BatchBranches ->
            IF pc = "crashed" THEN "Raised" ELSE LineOutcome(results[Len(results)])
      [] prog \in {"text", "cli"} /\ Branch \notin BatchBranches ->
            IF pc = "crashed" THEN "Raised" ELSE LineOutcome(published[Len(published)])
      [] prog = "cli" /\ Branch \in BatchBranches ->
            IF pc = "crashed" THEN "Raised" ELSE LineOutcome(published[Len(published)])

\* C5: a read of a digital input whose channel is outside 1..8 fails at
\* frame-build time: the input command writes nothing to the serial port.
C5_InputChannelRejected == InvalidInput => Written = {}

\* C6: a relay command with an invalid channel or an invalid action (the
\* all-channels write with an invalid action included) raises before any I/O:
\* no frame is written to the serial port for that command, and the
\* all-channels write stops at channel 1.
C6_NoWriteOnInvalidRelay ==
    InvalidRelay =>
        /\ wire = <<>>
        /\ pc \in {"write", "done", "crashed"}
        /\ Branch = "output_all" => i = 1

C6_Witness ==
    /\ prog = "json"
    /\ data = [cmd |-> "output_all", state |-> "toggle"]
    /\ pc = "done"
    /\ i = 1
    /\ wire = <<>>
    /\ published = <<JsonError("action must be 'on' or 'off'")>>

\* C7: in each program an invalid channel or action of a relay command is
\* fatal to that command only: once the command has been handled, an error
\* report for it has been delivered and the program goes on to the next
\* command.
C7_ValidationErrorReported ==
    (InvalidRelay /\ pc # "write") =>
        /\ pc = "done"
        /\ Len(published) > 0
        /\ published[Len(published)] \in
               { JsonError("channel must be 1-8"), JsonError("action must be 'on' or 'off'"),
                 Line("channel must be 1-8", 0, <<>>), Line("action must be 'on' or 'off'", 0, <<>>) }

\* C8: when the read of a cycle returns no bytes, the outcome reported for the
\* cycle is a timeout, never On, Off or Acknowledged.
C8_EmptyIsTimeout ==
    (CycleRead /\ resp = <<>> /\ (ReadKind \/ WriteKind) /\ ~InvalidInput) =>
        CycleOutcome = "Timeout"

\* C9: a read response of 1 to 4 bytes never raises: it is reported as a
\* malformed outcome, and a batch poll goes on with the next channel.
C9_ShortIsMalformed ==
    (CycleRead /\ ReadKind /\ Len(resp) \in 1..4 /\ ~InvalidInput) =>
        /\ pc # "crashed"
        /\ CycleOutcome = "Malformed"
        /\ (Branch \in {"status", "status out", "status inp"} /\ Cardinality(Reads) < 8) =>
               pc = "write"

\* C10: a read response of at least 5 bytes is decoded from the byte at offset
\* 4 alone: On exactly when it is 1, Off for every other value.
C10_StateFromOffset4 ==
    (CycleRead /\ ReadKind /\ Len(resp) >= 5) =>
        CycleOutcome = IF resp[5] = 1 THEN "On" ELSE "Off"

C10_Witness ==
    /\ CycleRead
    /\ prog = "json"
    /\ Branch = "status"
    /\ Cardinality(Reads) = 8
    /\ resp = <<9, 131, 4, 1, 1>>
    /\ results[7].state = "off"
    /\ CycleOutcome = "On"

BatchCommand ==
    IF prog = "json"
    THEN Branch \in {"output_all", "status"} /\ MissingKey(data) = "" /\ ~InvalidRelay
    ELSE Branch \in BatchBranches

\* the frames written to the port for the command, in the order of the writes
WrittenFrames == [k \in 1..Cardinality(Written) |->
                    wire[CHOOSE w \in Written : Cardinality({v \in Written : v <= w}) = k].frame]

\* the channel that a frame of the running command addresses
ChannelOf(frame) ==
    IF frame[2] = WRITE_REG THEN frame[4]
    ELSE IF Branch \in {"input", "in", "status inp"} \/ (Branch = "status" /\ data.target = "inputs")
         THEN frame[4] - 128
    ELSE IF prog = "cli" THEN frame[4] - 1
    ELSE frame[4]

\* the channels of the entries accumulated so far by the batch loop
ResultChannels ==
    CASE prog = "json" -> [k \in 1..Len(results) |-> results[k].channel]
      [] prog = "text" -> [k \in 1..(Len(results) - 1) |-> results[k + 1].n]
      [] prog = "cli" -> [k \in 1..(Len(published) - 1) |-> published[k + 1].n]

\* C12: every all-channels operation runs its cycles for channels 1, 2, ..., 8
\* in ascending order, the frame written in cycle k addressing channel k, and
\* once it has been handled it has run 8 cycles and accumulated exactly 8
\* results, the k-th belonging to channel k.
C12_BatchOrderAndLength ==
    BatchCommand =>
        /\ \A k \in 1..Len(WrittenFrames) : ChannelOf(WrittenFrames[k]) = k
        /\ \A k \in 1..Len(ResultChannels) : ResultChannels[k] = k
        /\ pc \in {"done", "crashed"} =>
               (Len(WrittenFrames) = 8 /\ Len(ResultChannels) = 8)

\* C13: in an all-channels poll a cycle whose response is empty does not end
\* the batch: its slot alone is recorded as a timeout, the poll goes on with
\* the next channel, and a slot whose response has at least 5 bytes carries
\* the state decoded from that response.
C13_TimeoutKeepsBatch ==
    (CycleRead /\ BatchCommand /\ ReadKind /\ (resp = <<>> \/ Len(resp) >= 5)) =>
        /\ pc # "crashed"
        /\ Len(ResultChannels) = Cardinality(Reads)
        /\ CycleOutcome = IF resp = <<>> THEN "Timeout"
                          ELSE IF resp[5] = 1 THEN "On" ELSE "Off"
        /\ Cardinality(Reads) < 8 => pc = "write"

\* the command being processed is a valid single-channel command
SingleCommand ==
    IF prog = "json"
    THEN Branch \in {"output", "input"} /\ MissingKey(data) = ""
         /\ ~InvalidRelay /\ ~InvalidInput
    ELSE Branch \in {"out", "in"} /\ int(parts[2]).exc = ""
         /\ ~InvalidRelay /\ ~InvalidInput

\* C15: no cycle is repeated and none is left out, whatever the responses
\* are: a valid single-channel command writes exactly one frame and a valid
\* all-channels command writes exactly eight frames, one per channel.
C15_NoRetries ==
    /\ SingleCommand =>
           /\ Cardinality(Written) <= 1
           /\ pc \in {"done", "crashed"} => Cardinality(Written) = 1
    /\ BatchCommand =>
           /\ Cardinality(Written) <= 8
           /\ \A j, k \in 1..Len(WrittenFrames) :
                  j < k => WrittenFrames[j] # WrittenFrames[k]
           /\ pc \in {"done", "crashed"} => Cardinality(Written) = 8

\* the number of cycles in flight: frames written whose read has not happened
InFlight == Cardinality(Written) - Cardinality(Reads)

\* C19: every cycle is reset input buffer, then write, then read: each
\* write comes directly after a reset that follows the previous read (or
\* starts the command), and each written frame is followed by one read
\* before the next reset or write.
C19_ResetWriteRead ==
    /\ \A k \in 1..Len(wire) :
        /\ wire[k].op = "reset_input_buffer" =>
               /\ k = 1 \/ wire[k - 1].op = "read"
               /\ k < Len(wire) /\ wire[k + 1].op = "write"
        /\ wire[k].op = "write" =>
               /\ k > 1 /\ wire[k - 1].op = "reset_input_buffer"
               /\ k < Len(wire) => wire[k + 1].op = "read"
        /\ wire[k].op = "read" =>
               /\ k > 1 /\ wire[k - 1].op = "write"
               /\ k < Len(wire) => wire[k + 1].op \in {"reset_input_buffer", "close"}
    /\ pc = "read" <=> (wire # <<>> /\ wire[Len(wire)].op = "write")
    /\ pc \in {"idle", "done", "exited"} => InFlight = 0

C19_Witness ==
    /\ prog = "cli"
    /\ parts = <<"exit">>
    /\ pc = "exited"
    /\ Cardinality(Written) = Len(EXAMPLES)
    /\ Cardinality(Reads) = Len(EXAMPLES)
    /\ wire[Len(wire)].op = "close"

\* C20: in the JSON bridge every inbound message results in exactly one
\* published message, whatever its payload and whatever the serial responses
\* are: none while the message is being handled, one when it has been.
C20_OnePublishPerMessage ==
    prog = "json" =>
        /\ pc \in {"write", "read"} => Len(published) = 0
        /\ pc \in {"done", "crashed"} => Len(published) = 1

----------------------------------------------------------------------------
(* Claims about the bridges under loop_forever, checked under SpecLoop.    *)

\* C14: at most one request/response cycle is in flight at any time, whatever
\* messages arrive and whenever they arrive: the step on the port that follows
\* the write of a frame is the read that ends its cycle, and while a command
\* runs its cycles no other command is started, so a batch completes its
\* cycles before the first write of the next command.
C14_OneCycleInFlight ==
    /\ [](InFlight \in {0, 1} /\ (InFlight = 1 <=> pc = "read"))
    /\ [][ /\ (pc = "read" /\ wire' # wire) => wire' = SerialRead
           /\ pc \in {"write", "read"} =>
                  /\ data' = data
                  /\ parts' = parts
                  /\ Len(wire') >= Len(wire)
                  /\ SubSeq(wire', 1, Len(wire)) = wire ]_vars

C14_Witness ==
    /\ prog = "json"
    /\ Branch = "output_all"
    /\ pc = "read"
    /\ i = 5
    /\ Len(inbox) = 2
    /\ Head(inbox).obj = [cmd |-> "output", channel |-> 1, state |-> "on"]

----------------------------------------------------------------------------
(* Claims about the test subscriber, checked under SpecSub.                *)

\* the message at the head of the queue is one that must not be answered: it
\* carries the subscriber's tag (in any case) or it is not a known command
Unanswerable ==
    /\ inbox # <<>>
    /\ Head(inbox).utf8
    /\ LET incoming == lower(strip(Head(inbox).text))
       IN startswith(incoming, OwnPrefix) \/ incoming \notin {Ping, TellAJoke, Bye}

\* C18: the test subscriber never replies to its own messages: every message
\* it publishes starts with "from-subscriber: ", handling a message that
\* starts with "from-subscriber:" (in any case) or that is not a known command
\* publishes nothing, and the replies never outnumber the messages that other
\* clients published, so no reply loop is reachable.
C18_NoReplyLoop ==
    /\ [](\A k \in 1..Len(published) : startswith(published[k], OwnTag))
    /\ [](Len(published) <= i)
    /\ [][Unanswerable => published' = published]_vars

C18_Witness ==
    /\ prog = "sub"
    /\ pc = "idle"
    /\ i = 2
    /\ Len(published) = 2
    /\ published[1] = OwnTag \o Pong
    /\ inbox = <<>>

====
